---------------------------- MODULE Spec2Model ----------------------------
(***************************************************************************)
(* Resource-management core of the vegetation-health backend:              *)
(*   - the job state machine (models/jobs.py) as driven by the Celery      *)
(*     tasks download_sentinel2_scene and calculate_vegetation_index;      *)
(*   - the global scene cache (tasks/download_tasks.py, hybrid cache       *)
(*     logic) over a blob store and the global_scene_cache table;          *)
(*   - the quota validator (services/limits.py) over the Redis counter     *)
(*     store, and the admission endpoints of main.py.                      *)
(*                                                                         *)
(* The specifications share the variables:                                 *)
(*   Spec        workers executing download tasks for jobs that exist;     *)
(*   SpecQuota   admission requests against the counter store and clock;   *)
(*   SpecVolume  concurrent callers of the quota services (volume and      *)
(*               frequency check, usage recording) over the months;        *)
(*   SpecJob     the transition methods of one job row under the clock.    *)
(***************************************************************************)
EXTENDS Integers, Sequences, FiniteSets, TLC

(***************************************************************************)
(* Bounds of the model.                                                    *)
(***************************************************************************)
NumJobs  == 2     \* job rows present in the pipeline specification
NumTasks == 2     \* task messages the broker delivers (a job may get two)
NumBands == 2     \* how many entries of required_bands the model keeps
NumRequests == 3  \* admission requests received by the API
NumSlots    == 2  \* requests the API serves at the same time
MaxFaults   == 1  \* infrastructure faults (store, database, broker) in a run
MaxLimit    == 2  \* largest daily job limit a plan row carries
TicksPerSec == 2  \* clock resolution: ticks in one second
SecPerDay   == 2  \* seconds in one day of the model's calendar
NumDays     == 2  \* days the clock runs through
NumMonths   == 2  \* calendar months the usage table covers
MaxHa       == 2  \* largest area of one request, in units of 0.0001 ha

(***************************************************************************)
(* Program constants.                                                      *)
(***************************************************************************)
\* download_tasks.py:177
required_bands == <<"B02", "B03", "B04", "B08", "B11", "B12", "SCL">>

Tenants == {"t1", "t2"}
Scenes  == {"X"}
JobIds  == 1..NumJobs
TaskIds == 1..NumTasks

\* The model keeps the last NumBands entries of required_bands, so that the
\* SCL band (the one the micro filter also fetches) is always among them.
\* A band is represented by its position in required_bands; the loops of
\* the task visit bands in that order.
BandIdx == (Len(required_bands) - NumBands + 1)..Len(required_bands)
SCL     == Len(required_bands)
EndIdx  == Len(required_bands) + 1

NoJob   == [status |-> "absent"]
NoEntry == [exists |-> FALSE]
NoErr   == "none"

VARIABLES
    jobs,          \* vegetation_jobs table: JobIds -> row (or NoJob)
    gcache,        \* global_scene_cache table: Scenes -> row (or NoEntry)
    globalBlobs,   \* blobs in the global bucket: set of <<scene, band>>
    tenantBlobs,   \* blobs in each tenant bucket: Tenants -> set of <<scene, band>>
    sceneRecords,  \* vegetation_scenes table: number of rows per <<tenant, scene>>
    tasks,         \* task messages / running task instances: TaskIds -> record
    lateDownload,  \* history: download_band was invoked after some job had
                   \*          completed as 'downloaded', with no overlap of
                   \*          tasks and no blob deleted until then
    firstDone,     \* history: some job completed with cache_status 'downloaded'
    overlapped,    \* history: two task instances were active at the same time
    oobDeleted,    \* history: a blob was deleted from the global bucket out of band
    now,           \* wall clock, in ticks since the first midnight
    redis,         \* counter store: rate-limit key -> [val, exp]
    planLimits,    \* vegetation_plan_limits: Tenants -> daily_calculate_jobs_limit
    haLimits,      \* vegetation_plan_limits: Tenants -> monthly and daily
                   \*          hectare limits
    month,         \* calendar month of datetime.utcnow()
    usageStats,    \* vegetation_usage_stats: <<tenant, month>> -> row
    requests,      \* HTTP requests being served: ReqIds -> record
    enqueued,      \* job ids handed to the broker by .delay()
    received,      \* history: number of requests received
    faults,        \* history: number of infrastructure faults so far
    storeFailed,   \* history: a frequency check took a fail-open path
    freqChecks,    \* history: <<tenant, date>> -> increments made by
                   \*          calculate_index checks for that key
    freqAllowed,   \* history: <<tenant, date>> -> checks for that key,
                   \*          made on that date, that returned is_allowed
    bucketCalls,   \* history: calls of generate_tenant_bucket_name made by
                   \*          the processes, as [tenant_id, seed, name]
    tileCache,     \* tile cache store: tile key -> version of the raster the
                   \*          stored PNG was rendered from (0: no entry)
    rasterVer,     \* index raster of each tenant scene: number of times it
                   \*          has been written (0: not calculated)
    tileReq,       \* the tile request being served, or the last reply
    tileInval,     \* the invalidate_scene call in progress, or its outcome
    schedRuns      \* check_and_process_entity task instances

\* Tables and buckets that only the workers write.
cacheVars == <<gcache, globalBlobs, tenantBlobs, sceneRecords, tasks,
               lateDownload, firstDone, overlapped, oobDeleted>>

\* State that only the admission endpoints and the clock write.
quotaVars == <<now, redis, planLimits, haLimits, month, usageStats,
               requests, enqueued,
               received, faults, storeFailed, freqChecks, freqAllowed>>

\* Plan columns and calendar that the daily frequency check does not read.
volumeVars == <<haLimits, month>>

\* Calls of the bucket-name function (services/storage.py).
bucketVars == <<bucketCalls>>

\* State of the services that neither the worker pipeline nor the admission
\* endpoints touch.
\* Tile cache (services/cache.py) and tile endpoint (api/tiles.py).
tileVars == <<tileCache, rasterVer, tileReq, tileInval>>

\* Subscription scheduler (tasks/scheduler.py).
schedVars == <<schedRuns>>

otherVars == <<bucketVars, tileVars, schedVars>>

\* History of the admission endpoints.
quotaHist == <<received, faults, storeFailed, freqChecks, freqAllowed>>

vars == <<jobs, gcache, globalBlobs, tenantBlobs, sceneRecords, tasks,
          lateDownload, firstDone, overlapped, oobDeleted,
          now, redis, planLimits, haLimits, month, usageStats,
          requests, enqueued,
          received, faults, storeFailed, freqChecks, freqAllowed,
          bucketCalls, tileCache, rasterVer, tileReq, tileInval,
          schedRuns>>

(***************************************************************************)
(* VegetationJob (models/jobs.py).                                         *)
(***************************************************************************)
NewJob(tenant, jtype, scene) ==
    [status       |-> "pending",
     tenant       |-> tenant,
     job_type     |-> jtype,
     scene        |-> scene,
     result       |-> "none",
     error        |-> NoErr,
     traceback    |-> NoErr,
     progress     |-> 0,
     started_at   |-> {},
     completed_at |-> {}]

\* A timestamp column holds no instant (NULL) or one instant.  utcnow is
\* the instant datetime.utcnow() returns.

\* mark_started: no guard on the current status
mark_started(job, utcnow) ==
    [job EXCEPT !.status = "running", !.started_at = {utcnow}]

\* mark_completed: no guard on the current status; result set when non-empty
mark_completed(job, result, utcnow) ==
    [job EXCEPT !.status = "completed", !.completed_at = {utcnow},
                !.progress = 100,
                !.result = IF result # "none" THEN result ELSE @]

\* mark_failed: no guard on the current status; traceback set when non-empty
mark_failed(job, error_message, error_traceback, utcnow) ==
    [job EXCEPT !.status = "failed", !.completed_at = {utcnow},
                !.error = error_message,
                !.traceback = IF error_traceback # NoErr
                                 THEN error_traceback ELSE @]

(***************************************************************************)
(* Task instances.                                                         *)
(***************************************************************************)
IdleTask ==
    [pc     |-> "idle",
     job    |-> 0,
     got    |-> {},       \* band_paths / global_band_paths: bands downloaded
     found  |-> FALSE,    \* the query of line 278 returned a row
     dc     |-> 0,        \* download_count as loaded by the session
     invalidated |-> FALSE,  \* the task took the branch of lines 241-246
     err    |-> "none"]   \* exception the task ended with

ActivePcs == {"lookup", "hitcopy", "invalidate", "download",
              "upsertq", "upsertc", "misscopy", "record", "calc"}

EndPcs == {"done", "raised"}

Active(t) == tasks[t].pc \in ActivePcs

(***************************************************************************)
(* Clock and calendar.  A day has SecPerDay seconds of TicksPerSec ticks;   *)
(* a date is the number of the day.                                        *)
(***************************************************************************)
DayTicks == TicksPerSec * SecPerDay
MaxTick  == NumDays * DayTicks - 1
Dates    == 0..(NumDays - 1)

\* date.today()
today(t) == t \div DayTicks

\* limits.py:203  (now + timedelta(days=1)).replace(hour=0, minute=0, ...)
midnight(t) == (today(t) + 1) * DayTicks

\* limits.py:204  int((midnight - now).total_seconds()): whole seconds,
\* the fraction is dropped
ttl_seconds(t) == (midnight(t) - t) \div TicksPerSec

(***************************************************************************)
(* Counter store (Redis).  A key holds an integer and an optional expiry   *)
(* instant; an absent key reads as val 0.                                  *)
(***************************************************************************)
Categories == {"download", "process", "calculate_index"}

\* limits.py 98-111  f"rate_limit:{tenant_id}:{job_type}:{date_str}"
get_rate_limit_key(tenant_id, job_type, date_str) ==
    <<tenant_id, job_type, date_str>>

RateKeys == Tenants \X Categories \X Dates

\* exp is the set of expiry instants of the key: empty, or one instant
AbsentKey == [val |-> 0, exp |-> {}]

\* INCR: an absent key is created with value 1 and no expiry; the expiry
\* of an existing key is kept
incr(store, key) == [store EXCEPT ![key].val = @ + 1]

\* EXPIRE key seconds, issued at instant t: no effect on an absent key; a
\* timeout that is not positive deletes the key
expire(store, key, seconds, t) ==
    IF store[key].val = 0 THEN store
    ELSE IF seconds <= 0 THEN [store EXCEPT ![key] = AbsentKey]
    ELSE [store EXCEPT ![key].exp = {t + seconds * TicksPerSec}]

\* keys whose expiry instant has been reached at instant t are gone
Expired(store, t) ==
    [k \in DOMAIN store |->
        IF \E e \in store[k].exp : e <= t THEN AbsentKey ELSE store[k]]

(***************************************************************************)
(* Usage statistics rows, one per (tenant, year, month)                    *)
(* (models/limits.py 48-78), and HTTP requests.  Areas are integers: the   *)
(* unit is the last decimal place of the Numeric(12, 4) column.            *)
(***************************************************************************)
Months == 1..NumMonths

NoStats    == [exists |-> FALSE, ha_processed |-> 0, jobs_created |-> 0]
EmptyStats == [exists |-> TRUE, ha_processed |-> 0, jobs_created |-> 0]

ReqIds == 1..NumSlots

\* bounds: Optional[Dict[str, Any]] (main.py 97).  None, or a GeoJSON
\* object: its 'type', whether its coordinates are a ring that
\* shapely.geometry.shape accepts, and the area of that ring in hectares.
NoBounds == [type |-> "None", ring |-> FALSE, area |-> 0]

GeoJSON(type, ring, area) == [type |-> type, ring |-> ring, area |-> area]

IdleRequest ==
    [pc       |-> "idle",
     endpoint |-> "none",
     tenant   |-> "none",
     date     |-> 0,          \* date part of rate_key
     ttl      |-> 0,          \* ttl computed at limits.py:204
     count    |-> 0,          \* current_count returned by INCR
     allowed  |-> "pending",  \* is_allowed of the frequency check
     resp     |-> 0,          \* HTTP status of the response
     job      |-> 0,          \* id of the job row the request created
     ha       |-> 0,          \* ha_to_process: area of the request
     vol      |-> "pending",  \* outcome of the volume check
     loaded   |-> NoStats,    \* usage row as loaded by record_job_usage
     rmonth   |-> 0,          \* month record_job_usage computed at line 119
     bounds   |-> NoBounds]   \* bounds of the request

RequestPcs == {"idle", "incr", "expire", "create", "done",
               "volume", "addjob", "recq", "recc"}

TypeOK ==
    /\ \A j \in JobIds : jobs[j].status \in
          {"absent", "pending", "running", "completed", "failed", "cancelled"}
    /\ \A s \in Scenes : gcache[s].exists \in BOOLEAN
    /\ globalBlobs \subseteq (Scenes \X BandIdx)
    /\ \A t \in TaskIds : tasks[t].pc \in
          ActivePcs \cup EndPcs \cup {"idle"}
    /\ now \in 0..MaxTick
    /\ \A k \in RateKeys : redis[k].val \in 0..NumRequests
    /\ \A r \in ReqIds : requests[r].pc \in RequestPcs
    /\ enqueued \subseteq JobIds
    /\ received \in 0..NumRequests
    /\ faults \in 0..MaxFaults

(***************************************************************************)
(* Tile cache keys (services/cache.py 45-58).  A tile belongs to a tenant  *)
(* scene (a vegetation_scenes row, which carries its tenant), an index     *)
(* type and a z/x/y cell.  A key is the sequence of the fields that ':'    *)
(* separates in the key string; the fields of the keys the program stores  *)
(* (a UUID, a checked index type, integers) contain neither ':' nor glob   *)
(* characters.                                                             *)
(***************************************************************************)
MaxVer == 2       \* times the index raster of a scene is written

TileScenes == {"u1", "u2"}

\* VegetationScene.tenant_id of the two scene rows
scene_tenant == [u \in TileScenes |-> IF u = "u1" THEN "t1" ELSE "t2"]

IndexTypes == {"NDVI"}

\* z/x/y cells requested
TileCells == {<<0, 0, 0>>, <<1, 0, 1>>}

get_cache_key(z, x, y, scene_id, index_type) ==
    <<"vegetation", "tile", scene_id, index_type, z, x, y>>

TileKeys ==
    {get_cache_key(c[1], c[2], c[3], u, i) :
        c \in TileCells, u \in TileScenes, i \in IndexTypes}

\* scene_id field of a key
KeyScene(k) == k[3]

\* cache.py 141: pattern f"vegetation:tile:{scene_id}:*"
ScenePattern(scene_id) == <<"vegetation", "tile", scene_id>>

\* redis KEYS: the key starts with the fields before the '*'
Matches(k, pattern) ==
    /\ Len(k) > Len(pattern)
    /\ SubSeq(k, 1, Len(pattern)) = pattern

NoTile == 0

\* No tile request in progress and none answered yet.
IdleTileReq ==
    [pc |-> "idle", tenant |-> "none", key |-> <<>>,
     rendered |-> NoTile,      \* tile_data generated by the handler
     status |-> 0,             \* status of the last reply
     body |-> NoTile]          \* PNG bytes of the last reply

\* No invalidate_scene call in progress and none made yet.
IdleInval ==
    [pc |-> "idle", scene |-> "none",
     keys |-> {},          \* keys found by the KEYS call
     deleted |-> 0,        \* return value of the last call
     failed |-> FALSE]     \* the last call caught a store error

\* check_and_process_entity not running
IdleRun ==
    [pc           |-> "idle",
     tenant       |-> "none",   \* sub.tenant_id
     scenes       |-> {},       \* scenes of the search still to be looped over
     existing_ids |-> {}]       \* scene ids the tenant has a scene row for

NumRuns == 2      \* check_and_process_entity instances at the same time

RunIds == 1..NumRuns

\* The other services at start: nothing has happened yet.
InitOther ==
    /\ bucketCalls = <<>>
    /\ tileCache = [k \in TileKeys |-> NoTile]
    /\ rasterVer = [u \in TileScenes |-> 0]
    /\ tileReq = IdleTileReq
    /\ tileInval = IdleInval
    /\ schedRuns = [i \in RunIds |-> IdleRun]

(***************************************************************************)
(* Initial state of the pipeline specification: the job rows exist and are *)
(* pending (created by the submission API or the scheduler), nothing is    *)
(* cached, no task has been delivered yet.  Tenants are interchangeable,   *)
(* so the first job is given to t1.                                        *)
(***************************************************************************)
Init ==
    /\ jobs \in [JobIds -> {NewJob(tn, ty, s) : tn \in Tenants,
                              ty \in {"download", "calculate_index"},
                              s \in Scenes}]
    /\ jobs[1].tenant = "t1"
    /\ gcache = [s \in Scenes |-> NoEntry]
    /\ globalBlobs = {}
    /\ tenantBlobs = [tn \in Tenants |-> {}]
    /\ sceneRecords = [k \in Tenants \X Scenes |-> 0]
    /\ tasks = [t \in TaskIds |-> IdleTask]
    /\ lateDownload = FALSE
    /\ firstDone = FALSE
    /\ overlapped = FALSE
    /\ oobDeleted = FALSE
    /\ now = 0
    /\ redis = [k \in RateKeys |-> AbsentKey]
    /\ planLimits = [tn \in Tenants |-> MaxLimit]
    /\ haLimits = [tn \in Tenants |->
                      [monthly_ha_limit |-> MaxHa, daily_ha_limit |-> MaxHa]]
    /\ month = 1
    /\ usageStats = [k \in Tenants \X Months |-> NoStats]
    /\ requests = [r \in ReqIds |-> IdleRequest]
    /\ enqueued = JobIds
    /\ received = 0
    /\ faults = 0
    /\ storeFailed = FALSE
    /\ freqChecks = [k \in Tenants \X Dates |-> 0]
    /\ freqAllowed = [k \in Tenants \X Dates |-> 0]
    /\ InitOther

EndTask(t, label) == [IdleTask EXCEPT !.pc = label, !.job = tasks[t].job]

\* The task continues at label; the job row is not written.
Goto(t, label) ==
    /\ tasks' = [tasks EXCEPT ![t].pc = label]
    /\ jobs' = jobs

(***************************************************************************)
(* download_tasks.py 415-425 and processing_tasks.py 359-369:              *)
(*   except Exception as e: job.mark_failed(str(e), ...); db.commit();     *)
(*   ...; raise                                                            *)
(* The task ends by raising in both branches: after the handler committed  *)
(* the failure, or because the commit in the handler itself raised, in     *)
(* which case the row keeps what was last committed.                       *)
(***************************************************************************)
Raised(t, j, e) ==
    [IdleTask EXCEPT !.pc = "raised", !.job = j, !.err = e]

Except(t, j, e) ==
    /\ tasks' = [tasks EXCEPT ![t] = Raised(t, j, e)]
    /\ \/ jobs' = [jobs EXCEPT ![j] = mark_failed(@, e, e, now)]
       \/ jobs' = jobs

(***************************************************************************)
(* The same handler entered because a db.commit() of the task raised while *)
(* flushing.  The session has rolled the transaction back and refuses      *)
(* further work until rollback() is called, which the handler does not do: *)
(* its own db.commit() raises, and the job row keeps what was last         *)
(* committed.                                                              *)
(***************************************************************************)
CommitRaised(t, j, e) ==
    /\ tasks' = [tasks EXCEPT ![t] = Raised(t, j, e)]
    /\ jobs' = jobs

\* CopernicusDataSpaceClient.download_band is invoked
InvokeDownload ==
    lateDownload' = (lateDownload \/ (firstDone /\ ~overlapped /\ ~oobDeleted))

(***************************************************************************)
(* A worker receives the task of job j and runs download_sentinel2_scene   *)
(* 36-44 or calculate_vegetation_index 114-137: load the job,              *)
(* mark_started, commit.  The commit may raise.                            *)
(* The same job can be delivered again (process_download_job and           *)
(* process_index_job re-dispatch by job id whatever the status; the broker *)
(* redelivers unacknowledged messages).  Task slots are interchangeable:   *)
(* the lowest unused one is taken.                                         *)
(***************************************************************************)
Start(t, j) ==
    /\ tasks[t].pc = "idle"
    /\ \A u \in TaskIds : u < t => tasks[u].pc # "idle"
    /\ jobs[j].status # "absent"
    /\ overlapped' = (overlapped \/ \E u \in TaskIds \ {t} : Active(u))
    /\ \/ CommitRaised(t, j, "DatabaseError")
       \/ /\ jobs' = [jobs EXCEPT ![j] = mark_started(@, now)]
          /\ tasks' = [tasks EXCEPT ![t] =
                [@ EXCEPT !.job = j,
                          !.pc = IF jobs[j].job_type = "download"
                                    THEN "lookup" ELSE "calc"]]
    /\ UNCHANGED <<gcache, globalBlobs, tenantBlobs, sceneRecords,
                   lateDownload, firstDone, oobDeleted>>
    /\ UNCHANGED quotaVars
    /\ UNCHANGED otherVars

(***************************************************************************)
(* GlobalSceneCache rows and the paths of the global bucket.               *)
(***************************************************************************)
Entry(valid, bands, count) ==
    [exists |-> TRUE, is_valid |-> valid, bands |-> bands,
     download_count |-> count,
     last_accessed_at |-> {}]     \* nullable column, no default

\* First position at which a copy loop over required_bands stops for a
\* reason the task cannot avoid: the band has no path in global_band_paths
\* (KeyError, miss path only) or its blob is not in the global bucket
\* (copy_file raises FileNotFoundError).  EndIdx when there is none.
ForcedStop(s, listed) ==
    LET bad == {b \in BandIdx : b \notin listed \/ <<s, b>> \notin globalBlobs}
    IN  IF bad = {} THEN EndIdx
        ELSE CHOOSE b \in bad : \A c \in bad : b <= c

\* The positions at which the copy loop may stop: at the forced stop, or
\* earlier because copy_file raised (storage failure).
CopyStops(s, listed) ==
    {k \in BandIdx \cup {EndIdx} : k <= ForcedStop(s, listed)}

CopyError(listed, k) ==
    IF k \notin listed THEN "KeyError" ELSE "StorageError"

Copied(s, k) == {<<s, b>> : b \in {c \in BandIdx : c < k}}

(***************************************************************************)
(* Lines 70-217.                                                           *)
(* 70-174: choose the scene.                                               *)
(*  - preset scene_id in the task parameters (subscription flow):          *)
(*    get_scene_item, then the SCL band is fetched from the provider into  *)
(*    a TemporaryDirectory.  When that download fails the filter is        *)
(*    skipped.  When it succeeds, compute_local_cloud_pct is called after  *)
(*    the 'with' block has removed the directory, so rasterio.open raises. *)
(*  - manual flow: search_scenes raises, finds nothing (ValueError), or    *)
(*    yields the scene.                                                    *)
(* 195-217: query the valid entry of the scene and verify that every       *)
(* required band is listed and present in the global bucket.               *)
(***************************************************************************)
Lookup(t) ==
    LET j == tasks[t].job
        s == jobs[j].scene
        e == gcache[s]
        hit == e.exists /\ e.is_valid
        all_bands_exist ==
            \A b \in BandIdx : b \in e.bands /\ <<s, b>> \in globalBlobs
        checked ==
            /\ jobs' = jobs
            /\ tasks' = [tasks EXCEPT ![t] =
                  IF ~hit THEN [@ EXCEPT !.pc = "download"]
                  ELSE IF all_bands_exist
                       THEN [@ EXCEPT !.pc = "hitcopy", !.dc = e.download_count]
                       ELSE [@ EXCEPT !.pc = "invalidate"]]
    IN
    /\ tasks[t].pc = "lookup"
    /\ \E preset \in BOOLEAN :
         IF preset
            THEN \/ /\ Except(t, j, "ProviderError")
                    /\ lateDownload' = lateDownload
                 \/ /\ InvokeDownload
                    /\ \/ checked
                       \/ Except(t, j, "RasterioIOError")
            ELSE /\ lateDownload' = lateDownload
                 /\ \/ checked
                    \/ Except(t, j, "ProviderError")
    /\ UNCHANGED <<gcache, globalBlobs, tenantBlobs, sceneRecords,
                   firstDone, overlapped, oobDeleted>>
    /\ UNCHANGED quotaVars
    /\ UNCHANGED otherVars

(***************************************************************************)
(* Lines 219-240: copy every band to the tenant bucket, then               *)
(* increment_download_count on the loaded row and commit.                  *)
(***************************************************************************)
increment_download_count(entry, loaded, utcnow) ==
    [entry EXCEPT !.download_count = loaded + 1,
                  !.last_accessed_at = {utcnow}]

HitCopy(t) ==
    LET j  == tasks[t].job
        s  == jobs[j].scene
        tn == jobs[j].tenant
    IN
    /\ tasks[t].pc = "hitcopy"
    /\ \E k \in CopyStops(s, BandIdx) :
          /\ tenantBlobs' = [tenantBlobs EXCEPT ![tn] = @ \cup Copied(s, k)]
          /\ IF k # EndIdx
                THEN /\ Except(t, tasks[t].job, CopyError(BandIdx, k))
                     /\ gcache' = gcache
                ELSE \/ /\ gcache' = [gcache EXCEPT ![s] =
                               increment_download_count(@, tasks[t].dc, now)]
                        /\ Goto(t, "record")
                     \/ /\ gcache' = gcache
                        /\ CommitRaised(t, tasks[t].job, "DatabaseError")
    /\ UNCHANGED <<globalBlobs, sceneRecords,
                   lateDownload, firstDone, overlapped, oobDeleted>>
    /\ UNCHANGED quotaVars
    /\ UNCHANGED otherVars

(***************************************************************************)
(* Lines 241-246: some band is missing; is_valid = False, commit.          *)
(***************************************************************************)
Invalidate(t) ==
    LET s == jobs[tasks[t].job].scene IN
    /\ tasks[t].pc = "invalidate"
    /\ \/ /\ gcache' = [gcache EXCEPT ![s].is_valid = FALSE]
          /\ tasks' = [tasks EXCEPT ![t].pc = "download",
                                    ![t].invalidated = TRUE]
          /\ jobs' = jobs
       \/ /\ gcache' = gcache
          /\ CommitRaised(t, tasks[t].job, "DatabaseError")
    /\ UNCHANGED <<globalBlobs, tenantBlobs, sceneRecords,
                   lateDownload, firstDone, overlapped, oobDeleted>>
    /\ UNCHANGED quotaVars
    /\ UNCHANGED otherVars

(***************************************************************************)
(* Lines 258-275 with copernicus_client.download_scene_bands (269-296):    *)
(* download_band is invoked for every required band; a band that fails is  *)
(* logged and skipped, so any subset may come back, and only the empty     *)
(* result raises.  The bands that came back are then uploaded to the       *)
(* global bucket in order; upload_file may raise at any of them.           *)
(***************************************************************************)
download_scene_bands == SUBSET BandIdx

Uploaded(s, band_paths, k) == {<<s, b>> : b \in {c \in band_paths : c < k}}

Download(t) ==
    LET s == jobs[tasks[t].job].scene IN
    /\ tasks[t].pc = "download"
    /\ InvokeDownload
    /\ \E band_paths \in download_scene_bands :
          IF band_paths = {}
             THEN /\ Except(t, tasks[t].job, "ProviderError")
                  /\ globalBlobs' = globalBlobs
             ELSE \E k \in band_paths \cup {EndIdx} :
                    /\ globalBlobs' = globalBlobs \cup Uploaded(s, band_paths, k)
                    /\ IF k = EndIdx
                          THEN /\ tasks' = [tasks EXCEPT ![t] =
                                    [@ EXCEPT !.pc = "upsertq", !.got = band_paths]]
                               /\ jobs' = jobs
                          ELSE Except(t, tasks[t].job, "StorageError")
    /\ UNCHANGED <<gcache, tenantBlobs, sceneRecords,
                   firstDone, overlapped, oobDeleted>>
    /\ UNCHANGED quotaVars
    /\ UNCHANGED otherVars

(***************************************************************************)
(* Lines 277-280: query the entry of the scene, valid or not.              *)
(***************************************************************************)
UpsertQuery(t) ==
    LET s == jobs[tasks[t].job].scene IN
    /\ tasks[t].pc = "upsertq"
    /\ jobs' = jobs
    /\ tasks' = [tasks EXCEPT ![t] =
                    [@ EXCEPT !.pc = "upsertc", !.found = gcache[s].exists]]
    /\ UNCHANGED <<gcache, globalBlobs, tenantBlobs, sceneRecords,
                   lateDownload, firstDone, overlapped, oobDeleted>>
    /\ UNCHANGED quotaVars
    /\ UNCHANGED otherVars

(***************************************************************************)
(* Lines 282-306: update the row found, or add a new row; commit.          *)
(* scene_id is UNIQUE (models/global_scene_cache.py:29): the INSERT of a   *)
(* second row for the scene raises IntegrityError.                         *)
(***************************************************************************)
\* Mutant of UpsertWrite: a row that was marked invalid stays invalid.
UpsertWrite_KeepsInvalid(old, found, global_band_paths) ==
    IF found
       THEN [old EXCEPT !.bands = global_band_paths]
       ELSE Entry(TRUE, global_band_paths, 0)

\* Mutant of UpsertWrite: the row lists every required band, downloaded or not.
UpsertWrite_ListsRequired(old, found, global_band_paths) ==
    IF found
       THEN [old EXCEPT !.is_valid = TRUE, !.bands = BandIdx]
       ELSE Entry(TRUE, BandIdx, 0)

UpsertWrite(old, found, global_band_paths) ==
    IF found
       THEN [old EXCEPT !.is_valid = TRUE, !.bands = global_band_paths]
       ELSE Entry(TRUE, global_band_paths, 0)

UpsertCommit(t) ==
    LET s == jobs[tasks[t].job].scene IN
    /\ tasks[t].pc = "upsertc"
    /\ \/ /\ ~tasks[t].found /\ gcache[s].exists
          /\ gcache' = gcache
          /\ CommitRaised(t, tasks[t].job, "IntegrityError")
       \/ /\ tasks[t].found \/ ~gcache[s].exists
          /\ \/ /\ gcache' = [gcache EXCEPT ![s] =
                                 UpsertWrite(@, tasks[t].found, tasks[t].got)]
                /\ Goto(t, "misscopy")
             \/ /\ gcache' = gcache
                /\ CommitRaised(t, tasks[t].job, "DatabaseError")
    /\ UNCHANGED <<globalBlobs, tenantBlobs, sceneRecords,
                   lateDownload, firstDone, overlapped, oobDeleted>>
    /\ UNCHANGED quotaVars
    /\ UNCHANGED otherVars

\* Mutant of MissCopy: a failed copy marks the entry of the scene invalid.
MissCopy_InvalidatesOnFailure(t) ==
    LET j  == tasks[t].job
        s  == jobs[j].scene
        tn == jobs[j].tenant
    IN
    /\ tasks[t].pc = "misscopy"
    /\ \E k \in CopyStops(s, tasks[t].got) :
          /\ tenantBlobs' = [tenantBlobs EXCEPT ![tn] = @ \cup Copied(s, k)]
          /\ IF k = EndIdx
                THEN /\ Goto(t, "record")
                     /\ gcache' = gcache
                ELSE /\ Except(t, tasks[t].job, CopyError(tasks[t].got, k))
                     /\ gcache' = [gcache EXCEPT ![s].is_valid = FALSE]
    /\ UNCHANGED <<globalBlobs, sceneRecords,
                   lateDownload, firstDone, overlapped, oobDeleted>>
    /\ UNCHANGED quotaVars
    /\ UNCHANGED otherVars

(***************************************************************************)
(* Lines 309-328: copy every required band from the global bucket to the   *)
(* tenant bucket; global_band_paths[band] raises KeyError for a band that  *)
(* was not downloaded.                                                     *)
(***************************************************************************)
MissCopy(t) ==
    LET j  == tasks[t].job
        s  == jobs[j].scene
        tn == jobs[j].tenant
    IN
    /\ tasks[t].pc = "misscopy"
    /\ \E k \in CopyStops(s, tasks[t].got) :
          /\ tenantBlobs' = [tenantBlobs EXCEPT ![tn] = @ \cup Copied(s, k)]
          /\ IF k = EndIdx THEN Goto(t, "record")
                           ELSE Except(t, tasks[t].job, CopyError(tasks[t].got, k))
    /\ UNCHANGED <<gcache, globalBlobs, sceneRecords,
                   lateDownload, firstDone, overlapped, oobDeleted>>
    /\ UNCHANGED quotaVars
    /\ UNCHANGED otherVars

(***************************************************************************)
(* Lines 330-411: add the tenant scene row, commit; mark_completed,        *)
(* commit; the chained calculation.  Either commit may raise.              *)
(***************************************************************************)
cache_status(t) == IF tasks[t].got = {} THEN "reused" ELSE "downloaded"

\* db.add(scene): vegetation_scenes has no unique key on (tenant, scene_id)
AddSceneRow(t) ==
    LET j == tasks[t].job IN
    [sceneRecords EXCEPT ![<<jobs[j].tenant, jobs[j].scene>>] = @ + 1]

\* models/jobs.py 63-66: CHECK job_type IN ('download', 'process',
\* 'calculate_index')
job_type_check(jtype) == jtype \in {"download", "process", "calculate_index"}

\* Lines 374-411, the chained calculation: a job row of job_type
\* 'calculation' is added and committed.  The insert is refused by
\* job_type_check, 'except Exception' (410) logs it, and neither a row nor
\* a task comes of it.
chained_calculation(rows, tn, s) ==
    LET free == {i \in JobIds : rows[i] = NoJob} IN
    IF job_type_check("calculation") /\ free # {}
       THEN [rows EXCEPT ![CHOOSE i \in free : \A k \in free : i <= k] =
                NewJob(tn, "calculation", s)]
       ELSE rows

Record(t) ==
    LET j == tasks[t].job IN
    /\ tasks[t].pc = "record"
    /\ \/ /\ sceneRecords' = AddSceneRow(t)
          /\ jobs' = chained_calculation(
                        [jobs EXCEPT ![j] =
                            mark_completed(@, cache_status(t), now)],
                        jobs[j].tenant, jobs[j].scene)
          /\ firstDone' = (firstDone \/ cache_status(t) = "downloaded")
          /\ tasks' = [tasks EXCEPT ![t] = EndTask(t, "done")]
       \/ /\ sceneRecords' = AddSceneRow(t)
          /\ CommitRaised(t, tasks[t].job, "DatabaseError")
          /\ firstDone' = firstDone
       \/ /\ CommitRaised(t, tasks[t].job, "DatabaseError")
          /\ UNCHANGED <<firstDone, sceneRecords>>
    /\ UNCHANGED <<gcache, globalBlobs, tenantBlobs,
                   lateDownload, overlapped, oobDeleted>>
    /\ UNCHANGED quotaVars
    /\ UNCHANGED otherVars

(***************************************************************************)
(* calculate_vegetation_index 139-330: load the scene bands from the       *)
(* tenant bucket, compute, save; any step may raise.  On success the index *)
(* cache row is added and mark_completed is committed.                     *)
(***************************************************************************)
Calculate(t) ==
    LET j == tasks[t].job IN
    /\ tasks[t].pc = "calc"
    /\ \/ /\ jobs' = [jobs EXCEPT ![j] = mark_completed(@, "statistics", now)]
          /\ tasks' = [tasks EXCEPT ![t] = EndTask(t, "done")]
       \/ Except(t, tasks[t].job, "CalculationError")
       \/ CommitRaised(t, tasks[t].job, "DatabaseError")
    /\ UNCHANGED <<gcache, globalBlobs, tenantBlobs, sceneRecords,
                   lateDownload, firstDone, overlapped, oobDeleted>>
    /\ UNCHANGED quotaVars
    /\ UNCHANGED otherVars

(***************************************************************************)
(* Environment: a blob of the global bucket is deleted out of band         *)
(* (garbage collection, operator action).                                  *)
(***************************************************************************)
DeleteBlob(p) ==
    /\ p \in globalBlobs
    /\ ~oobDeleted
    /\ globalBlobs' = globalBlobs \ {p}
    /\ oobDeleted' = TRUE
    /\ UNCHANGED <<jobs, gcache, tenantBlobs, sceneRecords, tasks,
                   lateDownload, firstDone, overlapped>>
    /\ UNCHANGED quotaVars
    /\ UNCHANGED otherVars

Next ==
    \/ \E t \in TaskIds, j \in JobIds : Start(t, j)
    \/ \E t \in TaskIds : Lookup(t)
    \/ \E t \in TaskIds : HitCopy(t)
    \/ \E t \in TaskIds : Invalidate(t)
    \/ \E t \in TaskIds : Download(t)
    \/ \E t \in TaskIds : UpsertQuery(t)
    \/ \E t \in TaskIds : UpsertCommit(t)
    \/ \E t \in TaskIds : MissCopy(t)
    \/ \E t \in TaskIds : Record(t)
    \/ \E t \in TaskIds : Calculate(t)
    \/ \E p \in Scenes \X BandIdx : DeleteBlob(p)

Spec == Init /\ [][Next]_vars

(***************************************************************************)
(* Properties of the pipeline specification.                               *)
(***************************************************************************)
Edges ==
    {<<"pending", "running">>, <<"running", "completed">>,
     <<"running", "failed">>, <<"pending", "cancelled">>,
     <<"running", "cancelled">>}

\* C1: every change of a job's status follows an edge of the job state
\* machine (pending->running, running->completed, running->failed,
\* pending/running->cancelled): a terminal status never changes again and
\* completed/failed is reached only from running.
C1_StatusFollowsEdges ==
    [][\A j \in JobIds :
          jobs'[j].status # jobs[j].status
             => <<jobs[j].status, jobs'[j].status>> \in Edges]_vars

\* C2: when a task raises after its job was started, the task ends with the
\* job's persisted status 'failed' and its error message set.
C2_RaiseEndsFailed ==
    [][\A t \in TaskIds :
          (Active(t) /\ tasks'[t].pc = "raised")
             => /\ jobs'[tasks[t].job].status = "failed"
                /\ jobs'[tasks[t].job].error # NoErr]_vars

\* Every job has been delivered at most once.
OneTaskPerJob ==
    \A t, u \in TaskIds :
        (t # u /\ tasks[t].pc # "idle" /\ tasks[u].pc # "idle")
           => tasks[t].job # tasks[u].job

C6_ValidEntryBlobsExist ==
    ~oobDeleted =>
        \A s \in Scenes :
            (gcache[s].exists /\ gcache[s].is_valid)
               => \A b \in gcache[s].bands : <<s, b>> \in globalBlobs

\* C6 witness: a miss path has written a valid entry with bands, the task
\* has finished, and nothing was deleted.
C6_Witness ==
    /\ ~oobDeleted
    /\ \E s \in Scenes :
          gcache[s].exists /\ gcache[s].is_valid /\ gcache[s].bands # {}
    /\ \E t \in TaskIds : tasks[t].pc = "done"

(***************************************************************************)
(* Admission endpoints (main.py) and LimitsValidator.check_frequency_limit *)
(* (services/limits.py 172-229).                                           *)
(* The plan rows carry the same daily_calculate_jobs_limit for every       *)
(* tenant, and the usage row of the month is present for all or for none.  *)
(***************************************************************************)
InitQuota ==
    /\ jobs = [j \in JobIds |-> NoJob]
    /\ gcache = [s \in Scenes |-> NoEntry]
    /\ globalBlobs = {}
    /\ tenantBlobs = [tn \in Tenants |-> {}]
    /\ sceneRecords = [k \in Tenants \X Scenes |-> 0]
    /\ tasks = [t \in TaskIds |-> IdleTask]
    /\ lateDownload = FALSE
    /\ firstDone = FALSE
    /\ overlapped = FALSE
    /\ oobDeleted = FALSE
    /\ now = 0
    /\ redis = [k \in RateKeys |-> AbsentKey]
    /\ \E limit \in 1..MaxLimit : planLimits = [tn \in Tenants |-> limit]
    /\ haLimits = [tn \in Tenants |->
                      [monthly_ha_limit |-> MaxHa, daily_ha_limit |-> MaxHa]]
    /\ month = 1
    /\ \E row \in {NoStats, EmptyStats} :
          usageStats = [k \in Tenants \X Months |-> row]
    /\ requests = [r \in ReqIds |-> IdleRequest]
    /\ enqueued = {}
    /\ received = 0
    /\ faults = 0
    /\ storeFailed = FALSE
    /\ freqChecks = [k \in Tenants \X Dates |-> 0]
    /\ freqAllowed = [k \in Tenants \X Dates |-> 0]
    /\ InitOther

\* Time passes; keys that reach their expiry instant disappear.
Tick ==
    /\ now < MaxTick
    /\ now' = now + 1
    /\ redis' = Expired(redis, now + 1)
    /\ UNCHANGED <<jobs, planLimits, usageStats, requests, enqueued>>
    /\ UNCHANGED quotaHist
    /\ UNCHANGED volumeVars
    /\ UNCHANGED cacheVars
    /\ UNCHANGED otherVars

InFlight(r) == requests[r].pc \notin {"idle", "done"}

FreeJobIds == {j \in JobIds : jobs[j] = NoJob}

\* An infrastructure fault (store, database or broker call raising) occurs.
Fault == faults < MaxFaults /\ faults' = faults + 1

NoFault == faults' = faults

\* A request arrives and is served in slot r, whose previous request has
\* been answered.  The slots are interchangeable (the lowest free one is
\* taken) and so are the tenants (the first request is t1's).  The
\* vegetation_jobs table of the model has NumJobs rows: a request is
\* received while a row remains for every request in flight.
Receive(r, tn) ==
    /\ requests[r].pc \in {"idle", "done"}
    /\ \A q \in ReqIds : q < r => InFlight(q)
    /\ received < NumRequests
    /\ received = 0 => tn = "t1"
    /\ Cardinality(FreeJobIds) > Cardinality({q \in ReqIds : InFlight(q)})
    /\ received' = received + 1

\* main.py 92-102: the fields JobCreateRequest declares
JobCreateRequestFields ==
    {"job_type", "entity_id", "entity_type", "bounds", "start_date",
     "end_date", "parameters", "data_source"}

(***************************************************************************)
(* POST /api/vegetation/jobs (main.py 285-384).  Line 300 reads            *)
(* request.ha_to_process, which JobCreateRequest does not declare: the     *)
(* attribute access raises AttributeError, the handler's                   *)
(* 'except Exception' answers 500, and the statements after line 300 are   *)
(* not reached.  LimitsValidator() at line 297 only reads.                 *)
(***************************************************************************)
create_job(r, tn) ==
    /\ Receive(r, tn)
    /\ "ha_to_process" \notin JobCreateRequestFields
    /\ requests' = [requests EXCEPT ![r] =
          [IdleRequest EXCEPT !.pc = "done", !.endpoint = "create_job",
                              !.resp = 500]]
    /\ UNCHANGED <<jobs, now, redis, planLimits, usageStats, enqueued,
                   faults, storeFailed, freqChecks, freqAllowed>>
    /\ UNCHANGED volumeVars
    /\ UNCHANGED cacheVars
    /\ UNCHANGED otherVars

\* Where a request continues once the frequency check has allowed it:
\* calculate_index creates its job (main.py 1144), check_all_limits goes on
\* to the volume check (limits.py 252-253).
AfterFrequency(q) ==
    IF q.endpoint = "calculate_index" THEN "create" ELSE "volume"

\* Mutant of FailOpen: an unavailable counter store denies the request.
FailOpen_FailsClosed(q) ==
    [q EXCEPT !.pc = "done", !.allowed = "no", !.count = 0, !.ttl = 0,
              !.resp = 429]

\* Any exception inside check_frequency_limit (limits.py 223-229), or no
\* client (182-184): fail open, (True, None, 0).
FailOpen(q) ==
    [q EXCEPT !.pc = AfterFrequency(q), !.allowed = "yes", !.count = 0,
              !.ttl = 0]

(***************************************************************************)
(* POST /api/vegetation/calculate (main.py 1086-1198), up to the first     *)
(* call on the counter store: request validation (1101-1126),              *)
(* LimitsValidator() (1129; _get_redis_client returns None when the store  *)
(* does not answer the ping, and check_frequency_limit then returns        *)
(* (True, None, 0) at limits.py 182-184), rate_key for date.today()        *)
(* (limits.py 188).                                                        *)
(***************************************************************************)
calculate_index(r, tn) ==
    LET q == [IdleRequest EXCEPT !.endpoint = "calculate_index",
                                 !.tenant = tn, !.date = today(now)]
    IN
    /\ Receive(r, tn)
    /\ \/ /\ requests' = [requests EXCEPT ![r] =
                [IdleRequest EXCEPT !.pc = "done",
                                    !.endpoint = "calculate_index",
                                    !.resp = 400]]
          /\ NoFault
          /\ storeFailed' = storeFailed
       \/ /\ requests' = [requests EXCEPT ![r] = FailOpen(q)]
          /\ Fault
          /\ storeFailed' = TRUE
       \/ /\ requests' = [requests EXCEPT ![r] = [q EXCEPT !.pc = "incr"]]
          /\ NoFault
          /\ storeFailed' = storeFailed
    /\ UNCHANGED <<jobs, now, redis, planLimits, usageStats, enqueued,
                   freqChecks, freqAllowed>>
    /\ UNCHANGED volumeVars
    /\ UNCHANGED cacheVars
    /\ UNCHANGED otherVars

\* Mutant of FrequencyAllowed: one more request passes.
FrequencyAllowed_OneMore(current_count, limit) == ~(current_count > limit + 1)

\* limits.py 213-221: if current_count > limit: return (False, ...)
FrequencyAllowed(current_count, limit) == ~(current_count > limit)

\* Mutant of Answer: the handler proceeds whatever the validator returned.
Answer_IgnoresDenial(q, is_allowed, current_count) ==
    [q EXCEPT !.count = current_count, !.ttl = 0,
              !.allowed = IF is_allowed THEN "yes" ELSE "no",
              !.pc = "create"]

\* The check returns (is_allowed, message, current_count);
\* main.py 1133-1142: if not is_allowed: raise HTTPException(429, usage),
\* which 'except HTTPException: raise' passes on; main.py 310-319 and
\* limits.py 249-250 do the same for a caller of check_all_limits.
Answer(q, is_allowed, current_count) ==
    [q EXCEPT !.count = current_count, !.ttl = 0,
              !.allowed = IF is_allowed THEN "yes" ELSE "no",
              !.pc = IF is_allowed THEN AfterFrequency(q) ELSE "done",
              !.resp = IF is_allowed THEN 0 ELSE 429]

\* The check for tenant tn and date d returns is_allowed.
Returned(tn, d, is_allowed) ==
    freqAllowed' = [freqAllowed EXCEPT ![<<tn, d>>] =
                       IF is_allowed /\ today(now) = d THEN @ + 1 ELSE @]

(***************************************************************************)
(* limits.py 202-213: now, midnight, ttl; current_count = incr(rate_key).  *)
(* When current_count is not 1 no further call is made and the comparison  *)
(* with the limit follows at once.                                         *)
(***************************************************************************)
check_frequency_incr(r) ==
    LET q     == requests[r]
        key   == get_rate_limit_key(q.tenant, "calculate_index", q.date)
        store == incr(redis, key)
        current_count == store[key].val
        is_allowed == FrequencyAllowed(current_count, planLimits[q.tenant])
    IN
    /\ q.pc = "incr"
    /\ \/ /\ Fault
          /\ storeFailed' = TRUE
          /\ requests' = [requests EXCEPT ![r] = FailOpen(q)]
          /\ UNCHANGED <<redis, freqChecks, freqAllowed>>
       \/ /\ NoFault
          /\ storeFailed' = storeFailed
          /\ redis' = store
          /\ freqChecks' = [freqChecks EXCEPT ![<<q.tenant, q.date>>] = @ + 1]
          /\ IF current_count = 1
                THEN /\ requests' = [requests EXCEPT ![r] =
                           [q EXCEPT !.pc = "expire", !.count = current_count,
                                     !.ttl = ttl_seconds(now)]]
                     /\ freqAllowed' = freqAllowed
                ELSE /\ requests' = [requests EXCEPT ![r] =
                           Answer(q, is_allowed, current_count)]
                     /\ Returned(q.tenant, q.date, is_allowed)
    /\ UNCHANGED <<jobs, now, planLimits, usageStats, enqueued, received>>
    /\ UNCHANGED volumeVars
    /\ UNCHANGED cacheVars
    /\ UNCHANGED otherVars

(***************************************************************************)
(* limits.py 209-221 for current_count = 1: expire(rate_key, ttl), then    *)
(* the comparison with the limit.                                          *)
(***************************************************************************)
check_frequency_expire(r) ==
    LET q   == requests[r]
        key == get_rate_limit_key(q.tenant, "calculate_index", q.date)
        is_allowed == FrequencyAllowed(q.count, planLimits[q.tenant])
    IN
    /\ q.pc = "expire"
    /\ \/ /\ Fault
          /\ storeFailed' = TRUE
          /\ requests' = [requests EXCEPT ![r] = FailOpen(q)]
          /\ UNCHANGED <<redis, freqAllowed>>
       \/ /\ NoFault
          /\ storeFailed' = storeFailed
          /\ redis' = expire(redis, key, q.ttl, now)
          /\ requests' = [requests EXCEPT ![r] = Answer(q, is_allowed, q.count)]
          /\ Returned(q.tenant, q.date, is_allowed)
    /\ UNCHANGED <<jobs, now, planLimits, usageStats, enqueued, received,
                   freqChecks>>
    /\ UNCHANGED volumeVars
    /\ UNCHANGED cacheVars
    /\ UNCHANGED otherVars

(***************************************************************************)
(* UsageTracker.record_job_usage (services/usage_tracker.py 91-172).       *)
(* loaded is the row of the month key as the session's query (122-126)     *)
(* returned it.  The counters are raised on the loaded object and the      *)
(* commit writes the resulting values to the row.  With no row for the     *)
(* month a new object is built and 'stats.ha_processed += ...' is          *)
(* evaluated before any flush, when the column defaults are not yet        *)
(* applied: TypeError, caught, rollback, and no row is written.            *)
(***************************************************************************)
record_job_usage(stats, key, loaded, ha_processed) ==
    IF loaded.exists
       THEN [stats EXCEPT
               ![key].ha_processed = loaded.ha_processed + ha_processed,
               ![key].jobs_created = loaded.jobs_created + 1]
       ELSE stats

(***************************************************************************)
(* main.py 1144-1184: add the job row and commit; record_job_usage (its    *)
(* exceptions are swallowed); calculate_vegetation_index.delay().  The     *)
(* first commit or delay() may raise: the handler answers 500.             *)
(***************************************************************************)
CreateIndexJob(r) ==
    LET q  == requests[r]
        j  == CHOOSE i \in FreeJobIds : \A k \in FreeJobIds : i <= k
        answered == [IdleRequest EXCEPT !.pc = "done",
                                        !.endpoint = "calculate_index",
                                        !.tenant = q.tenant,
                                        !.allowed = q.allowed,
                                        !.count = q.count]
    IN
    /\ q.pc = "create"
    /\ FreeJobIds # {}
    /\ \/ /\ Fault
          /\ requests' = [requests EXCEPT ![r] = [answered EXCEPT !.resp = 500]]
          /\ UNCHANGED <<jobs, usageStats, enqueued>>
       \/ /\ \E s \in Scenes :
                jobs' = [jobs EXCEPT ![j] = NewJob(q.tenant, "calculate_index", s)]
          /\ \/ /\ NoFault
                /\ usageStats' = record_job_usage(usageStats,
                                       <<q.tenant, month>>,
                                       usageStats[<<q.tenant, month>>], 0)
                /\ enqueued' = enqueued \cup {j}
                /\ requests' = [requests EXCEPT ![r] =
                                   [answered EXCEPT !.resp = 200, !.job = j]]
             \/ /\ Fault
                /\ usageStats' = usageStats
                /\ enqueued' = enqueued \cup {j}
                /\ requests' = [requests EXCEPT ![r] =
                                   [answered EXCEPT !.resp = 200, !.job = j]]
             \/ /\ Fault
                /\ usageStats' = record_job_usage(usageStats,
                                       <<q.tenant, month>>,
                                       usageStats[<<q.tenant, month>>], 0)
                /\ enqueued' = enqueued
                /\ requests' = [requests EXCEPT ![r] =
                                   [answered EXCEPT !.resp = 500, !.job = j]]
    /\ UNCHANGED <<now, redis, planLimits, received, storeFailed,
                   freqChecks, freqAllowed>>
    /\ UNCHANGED volumeVars
    /\ UNCHANGED cacheVars
    /\ UNCHANGED otherVars

NextQuota ==
    \/ Tick
    \/ \E r \in ReqIds, tn \in Tenants : create_job(r, tn)
    \/ \E r \in ReqIds, tn \in Tenants : calculate_index(r, tn)
    \/ \E r \in ReqIds : check_frequency_incr(r)
    \/ \E r \in ReqIds : check_frequency_expire(r)
    \/ \E r \in ReqIds : CreateIndexJob(r)

SpecQuota == InitQuota /\ [][NextQuota]_vars

(***************************************************************************)
(* Properties of the admission specification.                              *)
(***************************************************************************)
RateKeyOf(tn, d) == get_rate_limit_key(tn, "calculate_index", d)

\* Request r has received the verdict of a frequency check that reached the
\* counter store.
Checked(r) ==
    /\ requests[r].endpoint = "calculate_index"
    /\ requests[r].pc \in {"create", "done"}
    /\ requests[r].count > 0

\* C7: with the counter store available, for every tenant and day the
\* number of calculate_index requests that the frequency check allows on
\* that day is at most the tenant's daily limit.
C7_AllowedWithinLimit ==
    ~storeFailed =>
        \A tn \in Tenants, d \in Dates :
            freqAllowed[<<tn, d>>] <= planLimits[tn]

\* C8 as stated: the counter of a (tenant, category, date) key never
\* exceeds limit + 1.
C8_CounterAtMostLimitPlusOne ==
    \A tn \in Tenants, d \in Dates :
        redis[RateKeyOf(tn, d)].val <= planLimits[tn] + 1

\* C8 amended: the counter of a key is raised by every check, rejected or
\* not, so it is bounded by the number of checks made for the key and not
\* by limit + 1; every check whose post-increment count exceeds the limit
\* is rejected with 429 and creates no job.
C8_RejectedAboveLimit ==
    /\ \A tn \in Tenants, d \in Dates :
          redis[RateKeyOf(tn, d)].val <= freqChecks[<<tn, d>>]
    /\ \A r \in ReqIds :
          (Checked(r) /\ requests[r].count > planLimits[requests[r].tenant])
             => /\ requests[r].allowed = "no"
                /\ requests[r].resp = 429
                /\ requests[r].job = 0

\* C8 witness: a counter stands above limit + 1 and the request that
\* raised it there was rejected.
C8_Witness ==
    \E r \in ReqIds :
        /\ Checked(r)
        /\ requests[r].resp = 429
        /\ requests[r].count > planLimits[requests[r].tenant] + 1
        /\ redis[RateKeyOf(requests[r].tenant, requests[r].date)].val
              = requests[r].count

\* C9: with the counter store available, the k-th frequency check of a day
\* for a tenant returns the post-increment count k, and the request is
\* allowed iff k <= limit (so the (limit+1)-th is rejected with usage
\* limit+1).
C9_KthCheckReturnsK ==
    [][\A r \in ReqIds :
          (/\ requests[r].pc = "incr"
           /\ requests'[r].pc # "incr"
           /\ ~storeFailed'
           /\ today(now) = requests[r].date)
             => /\ requests'[r].count
                      = freqChecks'[<<requests[r].tenant, requests[r].date>>]
                /\ requests'[r].pc # "expire"
                      => (requests'[r].allowed = "yes"
                             <=> requests'[r].count
                                    <= planLimits[requests[r].tenant])]_vars

\* C10: a submission that the quota validator denies creates no job row,
\* records no usage and enqueues no task; it only increments the frequency
\* counter.  Job rows are created only by requests that were allowed.
C10_DeniedLeavesNoTrace ==
    /\ [](\A r \in ReqIds :
             requests[r].allowed = "no"
                => /\ requests[r].pc = "done"
                   /\ requests[r].resp = 429
                   /\ requests[r].job = 0)
    /\ [][/\ \A r \in ReqIds :
               (requests[r].pc \in {"incr", "expire"}
                   /\ requests'[r].allowed = "no")
                  => /\ jobs' = jobs
                     /\ usageStats' = usageStats
                     /\ enqueued' = enqueued
                     /\ \A k \in RateKeys :
                           redis'[k] # redis[k]
                              => /\ k = RateKeyOf(requests[r].tenant,
                                                  requests[r].date)
                                 /\ redis'[k] = [redis[k] EXCEPT !.val = @ + 1]
          /\ jobs' # jobs
               => \E r \in ReqIds :
                     /\ requests[r].pc = "create"
                     /\ requests[r].allowed = "yes"
                     /\ requests'[r].job # 0]_vars

\* C10 witness: one request was admitted and created its job, another was
\* denied with 429 and has no job.
C10_Witness ==
    /\ \E j \in JobIds : jobs[j] # NoJob
    /\ \E r \in ReqIds :
          /\ requests[r].allowed = "no"
          /\ requests[r].resp = 429
          /\ requests[r].job = 0

(***************************************************************************)
(* The quota services under concurrent callers: LimitsValidator            *)
(* .check_all_limits (services/limits.py 231-266) with its volume check    *)
(* (113-170), and UsageTracker.record_job_usage.  A caller follows the     *)
(* admission sequence written at main.py 304-347: check_all_limits, add    *)
(* the job row and commit, record_job_usage, delay().  In create_job these *)
(* statements stand behind line 300 (see create_job above); the decorator  *)
(* check_limits (middleware/limits.py 73-95) makes the same first call.    *)
(* The job type is 'calculate_index', so that the frequency check is the   *)
(* one of check_frequency_incr and check_frequency_expire.  The clock      *)
(* stays within one day while the month of utcnow() may turn.              *)
(***************************************************************************)
InitVolume ==
    /\ jobs = [j \in JobIds |-> NoJob]
    /\ gcache = [s \in Scenes |-> NoEntry]
    /\ globalBlobs = {}
    /\ tenantBlobs = [tn \in Tenants |-> {}]
    /\ sceneRecords = [k \in Tenants \X Scenes |-> 0]
    /\ tasks = [t \in TaskIds |-> IdleTask]
    /\ lateDownload = FALSE
    /\ firstDone = FALSE
    /\ overlapped = FALSE
    /\ oobDeleted = FALSE
    /\ now = 0
    /\ redis = [k \in RateKeys |-> AbsentKey]
    /\ planLimits = [tn \in Tenants |-> MaxLimit]
    /\ \E m \in MaxHa..(MaxHa + 1), d \in 1..MaxHa :
          haLimits = [tn \in Tenants |->
                         [monthly_ha_limit |-> m, daily_ha_limit |-> d]]
    /\ month = 1
    /\ \E row \in {NoStats, EmptyStats} :
          usageStats = [k \in Tenants \X Months |-> row]
    /\ requests = [r \in ReqIds |-> IdleRequest]
    /\ enqueued = {}
    /\ received = 0
    /\ faults = 0
    /\ storeFailed = FALSE
    /\ freqChecks = [k \in Tenants \X Dates |-> 0]
    /\ freqAllowed = [k \in Tenants \X Dates |-> 0]
    /\ InitOther

\* The month of datetime.utcnow() turns.
MonthTurns ==
    /\ month < NumMonths
    /\ month' = month + 1
    /\ UNCHANGED <<jobs, now, redis, planLimits, haLimits, usageStats,
                   requests, enqueued>>
    /\ UNCHANGED quotaHist
    /\ UNCHANGED cacheVars
    /\ UNCHANGED otherVars

(***************************************************************************)
(* UsageTracker.calculate_area_hectares (usage_tracker.py 36-88): None     *)
(* gives Decimal('0.0') (43-44); an object that is no dict of type         *)
(* 'Polygon' gives Decimal('0.0') (59-61); shape() or the projection       *)
(* raising on coordinates that are no ring is caught at 86-88 and gives    *)
(* Decimal('0.0'); otherwise the area of the polygon.  The bbox list form  *)
(* (47-58) cannot come in through bounds: Optional[Dict].                  *)
(***************************************************************************)
calculate_area_hectares(bounds) ==
    IF bounds = NoBounds THEN 0
    ELSE IF bounds.type # "Polygon" THEN 0
    ELSE IF ~bounds.ring THEN 0
    ELSE bounds.area

\* limits.py 127-130: the area is calculated from the bounds when the caller
\* passed no ha_to_process.  ha_to_process is {} for None, {h} for h.
area_to_process(bounds, ha_to_process) ==
    IF ha_to_process = {} THEN calculate_area_hectares(bounds)
    ELSE CHOOSE h \in ha_to_process : TRUE

(***************************************************************************)
(* A caller constructs the validator and calls check_all_limits with the   *)
(* area ha_to_process (limits.py 247-248), up to the first call on the     *)
(* counter store; with no client the frequency check returns               *)
(* (True, None, 0) at limits.py 183-185.                                   *)
(***************************************************************************)
check_all_limits(r, tn, bounds, ha_to_process) ==
    LET q == [IdleRequest EXCEPT !.endpoint = "check_all_limits",
                                 !.tenant = tn, !.date = today(now),
                                 !.bounds = bounds,
                                 !.ha = area_to_process(bounds,
                                                        ha_to_process)]
    IN
    /\ Receive(r, tn)
    /\ \/ /\ requests' = [requests EXCEPT ![r] = FailOpen(q)]
          /\ Fault
          /\ storeFailed' = TRUE
       \/ /\ requests' = [requests EXCEPT ![r] = [q EXCEPT !.pc = "incr"]]
          /\ NoFault
          /\ storeFailed' = storeFailed
    /\ UNCHANGED <<jobs, now, redis, planLimits, usageStats, enqueued,
                   freqChecks, freqAllowed>>
    /\ UNCHANGED volumeVars
    /\ UNCHANGED cacheVars
    /\ UNCHANGED otherVars

\* usage_tracker.py 174-215: ha_processed of the row of the current month,
\* Decimal('0.0') when there is no row
get_current_month_usage(stats, tn, m) ==
    IF stats[<<tn, m>>].exists THEN stats[<<tn, m>>].ha_processed ELSE 0

\* Mutant of VolumeAllowed: a request that reaches a limit exactly is denied.
VolumeAllowed_DeniesAtLimit(current_ha, ha_to_process, limits) ==
    /\ ~(current_ha + ha_to_process >= limits.monthly_ha_limit)
    /\ ~(ha_to_process >= limits.daily_ha_limit)

\* limits.py 145-165: the monthly comparison, then the daily one
VolumeAllowed(current_ha, ha_to_process, limits) ==
    /\ ~(current_ha + ha_to_process > limits.monthly_ha_limit)
    /\ ~(ha_to_process > limits.daily_ha_limit)

\* limits.py 253-255 and main.py 310-319: a denial is answered with 429
VolumeVerdict(q, vol_allowed) ==
    [q EXCEPT !.vol = IF vol_allowed THEN "yes" ELSE "no",
              !.pc = IF vol_allowed THEN "addjob" ELSE "done",
              !.resp = IF vol_allowed THEN 0 ELSE 429]

(***************************************************************************)
(* check_volume_limit (limits.py 113-170): one query for the usage row of  *)
(* the current month, then the comparisons.  Any exception (the query      *)
(* raising) is caught at 167-170 and the request is allowed.               *)
(***************************************************************************)
check_volume_limit(r) ==
    LET q == requests[r]
        current_ha == get_current_month_usage(usageStats, q.tenant, month)
    IN
    /\ q.pc = "volume"
    /\ \/ /\ Fault
          /\ requests' = [requests EXCEPT ![r] =
                [q EXCEPT !.vol = "failopen", !.pc = "addjob"]]
       \/ /\ NoFault
          /\ requests' = [requests EXCEPT ![r] =
                VolumeVerdict(q, VolumeAllowed(current_ha, q.ha,
                                               haLimits[q.tenant]))]
    /\ UNCHANGED <<jobs, now, redis, planLimits, usageStats, enqueued,
                   received, storeFailed, freqChecks, freqAllowed>>
    /\ UNCHANGED volumeVars
    /\ UNCHANGED cacheVars
    /\ UNCHANGED otherVars

\* The response of a request that has left the checks behind.
Answered(q, code, j) ==
    [IdleRequest EXCEPT !.pc = "done", !.endpoint = q.endpoint,
                        !.tenant = q.tenant, !.allowed = q.allowed,
                        !.count = q.count, !.ha = q.ha, !.vol = q.vol,
                        !.bounds = q.bounds,
                        !.resp = code, !.job = j]

(***************************************************************************)
(* main.py 322-335: add the job row, commit, refresh.  The commit may      *)
(* raise: 500.                                                             *)
(***************************************************************************)
AddJobRow(r) ==
    LET q == requests[r]
        j == CHOOSE i \in FreeJobIds : \A k \in FreeJobIds : i <= k
    IN
    /\ q.pc = "addjob"
    /\ FreeJobIds # {}
    /\ \/ /\ Fault
          /\ requests' = [requests EXCEPT ![r] = Answered(q, 500, 0)]
          /\ jobs' = jobs
       \/ /\ NoFault
          /\ \E s \in Scenes :
                jobs' = [jobs EXCEPT ![j] = NewJob(q.tenant, "calculate_index", s)]
          /\ requests' = [requests EXCEPT ![r] =
                             [q EXCEPT !.pc = "recq", !.job = j]]
    /\ UNCHANGED <<now, redis, planLimits, usageStats, enqueued,
                   received, storeFailed, freqChecks, freqAllowed>>
    /\ UNCHANGED volumeVars
    /\ UNCHANGED cacheVars
    /\ UNCHANGED otherVars

\* main.py 349-363: delay() hands the job to the broker, or raises: 500
Delay(r, q) ==
    \/ /\ NoFault
       /\ enqueued' = enqueued \cup {q.job}
       /\ requests' = [requests EXCEPT ![r] = Answered(q, 201, q.job)]
    \/ /\ Fault
       /\ enqueued' = enqueued
       /\ requests' = [requests EXCEPT ![r] = Answered(q, 500, q.job)]

(***************************************************************************)
(* record_job_usage 112-126 as called at main.py 339-347: the month of     *)
(* utcnow(), then the query for the row of that month.  With a row the     *)
(* call goes on to its commit.  With no row (TypeError at 138), or when    *)
(* the query raises, the call returns at 169-172 and the caller goes on    *)
(* to delay().                                                             *)
(***************************************************************************)
record_job_usage_query(r) ==
    LET q   == requests[r]
        row == usageStats[<<q.tenant, month>>]
    IN
    /\ q.pc = "recq"
    /\ IF row.exists
          THEN /\ requests' = [requests EXCEPT ![r] =
                     [q EXCEPT !.pc = "recc", !.loaded = row,
                               !.rmonth = month]]
               /\ NoFault
               /\ enqueued' = enqueued
          ELSE Delay(r, q)
    /\ UNCHANGED <<jobs, now, redis, planLimits, usageStats,
                   received, storeFailed, freqChecks, freqAllowed>>
    /\ UNCHANGED volumeVars
    /\ UNCHANGED cacheVars
    /\ UNCHANGED otherVars

(***************************************************************************)
(* record_job_usage 137-172: the counters of the loaded object are raised  *)
(* and the commit writes them; a commit that raises is rolled back.  Then  *)
(* the caller goes on to delay().                                          *)
(***************************************************************************)
record_job_usage_commit(r) ==
    LET q == requests[r] IN
    /\ q.pc = "recc"
    /\ \/ /\ usageStats' = record_job_usage(usageStats,
                               <<q.tenant, q.rmonth>>, q.loaded, q.ha)
          /\ Delay(r, q)
       \/ /\ usageStats' = usageStats
          /\ Fault
          /\ enqueued' = enqueued \cup {q.job}
          /\ requests' = [requests EXCEPT ![r] = Answered(q, 201, q.job)]
    /\ UNCHANGED <<jobs, now, redis, planLimits,
                   received, storeFailed, freqChecks, freqAllowed>>
    /\ UNCHANGED volumeVars
    /\ UNCHANGED cacheVars
    /\ UNCHANGED otherVars

NextVolume ==
    \/ MonthTurns
    \/ \E r \in ReqIds, tn \in Tenants, ha \in 0..MaxHa :
          check_all_limits(r, tn, NoBounds, {ha})
    \/ \E r \in ReqIds : check_frequency_incr(r)
    \/ \E r \in ReqIds : check_frequency_expire(r)
    \/ \E r \in ReqIds : check_volume_limit(r)
    \/ \E r \in ReqIds : AddJobRow(r)
    \/ \E r \in ReqIds : record_job_usage_query(r)
    \/ \E r \in ReqIds : record_job_usage_commit(r)

SpecVolume == InitVolume /\ [][NextVolume]_vars

(***************************************************************************)
(* Properties of the quota services.                                       *)
(***************************************************************************)
UsageKeys == Tenants \X Months

VolumeChecked(r) ==
    /\ requests[r].pc = "volume"
    /\ requests'[r].pc # "volume"
    /\ requests'[r].vol \in {"yes", "no"}

\* C12: with no calculation error the volume check denies a request iff
\* (area recorded for the current month + requested area) > monthly limit
\* or the requested area alone > daily limit; a total equal to the monthly
\* limit and an area equal to the daily limit are allowed, and the verdict
\* depends on nothing but these three quantities (no daily total).
C12_VolumeDeniesIffOverLimit ==
    [][\A r \in ReqIds :
          VolumeChecked(r) =>
             LET q == requests[r]
                 recorded == usageStats[<<q.tenant, month>>].ha_processed
             IN  requests'[r].vol = "no"
                    <=> \/ recorded + q.ha > haLimits[q.tenant].monthly_ha_limit
                        \/ q.ha > haLimits[q.tenant].daily_ha_limit]_vars

\* C12 witness: a request whose area equals the daily limit was admitted
\* and recorded, the recorded total of the month now equals the monthly
\* limit exactly, and it exceeds the daily limit although the day has not
\* changed.
C12_Witness ==
    \E r \in ReqIds :
        LET q == requests[r] IN
        /\ q.pc = "done" /\ q.vol = "yes" /\ q.resp = 201
        /\ q.ha = haLimits[q.tenant].daily_ha_limit
        /\ month = 1
        /\ usageStats[<<q.tenant, 1>>].ha_processed
              = haLimits[q.tenant].monthly_ha_limit
        /\ usageStats[<<q.tenant, 1>>].ha_processed
              > haLimits[q.tenant].daily_ha_limit

FailedOpen(r) ==
    /\ requests[r].endpoint = "check_all_limits"
    /\ requests[r].allowed = "yes"
    /\ requests[r].count = 0

\* C14: when the counter store is unavailable (no client, or the increment
\* or the expire call raises) the frequency check allows the request with
\* count 0 and nothing is raised to the caller; the volume check is then
\* evaluated, and when it denies the request is answered with 429 and no
\* job is created.
C14_FailOpenThenVolume ==
    /\ [](\A r \in ReqIds :
             FailedOpen(r) =>
                /\ requests[r].pc \in {"volume", "addjob", "recq", "recc", "done"}
                /\ requests[r].pc # "volume" => requests[r].vol # "pending"
                /\ requests[r].vol = "no"
                      => /\ requests[r].pc = "done"
                         /\ requests[r].resp = 429
                         /\ requests[r].job = 0)
    /\ [][\A r \in ReqIds :
             (/\ requests'[r].endpoint = "check_all_limits"
              /\ requests[r].pc \in {"idle", "done", "incr", "expire"}
              /\ requests'[r] # requests[r]
              /\ faults' # faults)
                => /\ requests'[r].pc = "volume"
                   /\ requests'[r].allowed = "yes"
                   /\ requests'[r].count = 0
                   /\ requests'[r].resp = 0]_vars

\* C14 witness: a request passed the frequency check on a fail-open path
\* and was then denied by the volume check.
C14_Witness ==
    \E r \in ReqIds :
        /\ FailedOpen(r)
        /\ requests[r].vol = "no"
        /\ requests[r].resp = 429

(***************************************************************************)
(* Expiry of the frequency counters (SpecQuota).                           *)
(***************************************************************************)
\* C15: the expiry of a (tenant, category, date) counter key is the local
\* midnight that ends its date; once set it is not changed by later
\* increments; and the first check made for a key sees the post-increment
\* count 1.
C15_ExpiryAtNextMidnight ==
    /\ [](\A k \in RateKeys :
             \A e \in redis[k].exp : e = (k[3] + 1) * DayTicks)
    /\ [][\A k \in RateKeys :
             (redis[k].exp # {} /\ redis'[k].val > redis[k].val)
                => redis'[k].exp = redis[k].exp]_vars
    /\ [][\A r \in ReqIds :
             (/\ requests[r].pc = "incr"
              /\ requests'[r].pc # "incr"
              /\ faults' = faults
              /\ freqChecks[<<requests[r].tenant, requests[r].date>>] = 0)
                => requests'[r].count = 1]_vars

(***************************************************************************)
(* The transition methods of VegetationJob (models/jobs.py 87-106) as the  *)
(* tasks call them, under the clock.  A delivery of a job's task is Start  *)
(* (mark_started, commit).  The run then ends with mark_completed and      *)
(* commit (download_tasks.py 361-368, processing_tasks.py 329-330), with   *)
(* the result the run produced, or in the handler of 415-423; what happens *)
(* in between is the subject of Spec.  The same job may be delivered       *)
(* again while or after an earlier delivery runs.                          *)
(***************************************************************************)
Results(job_type) ==
    IF job_type = "download" THEN {"reused", "downloaded"}
                             ELSE {"statistics"}

Completes(t) ==
    LET j == tasks[t].job IN
    /\ Active(t)
    /\ \E result \in Results(jobs[j].job_type) :
          jobs' = [jobs EXCEPT ![j] = mark_completed(@, result, now)]
    /\ tasks' = [tasks EXCEPT ![t] = EndTask(t, "done")]
    /\ UNCHANGED <<gcache, globalBlobs, tenantBlobs, sceneRecords,
                   lateDownload, firstDone, overlapped, oobDeleted>>
    /\ UNCHANGED quotaVars
    /\ UNCHANGED otherVars

Fails(t) ==
    /\ Active(t)
    /\ \E e \in {"ProviderError", "StorageError"} : Except(t, tasks[t].job, e)
    /\ UNCHANGED <<gcache, globalBlobs, tenantBlobs, sceneRecords,
                   lateDownload, firstDone, overlapped, oobDeleted>>
    /\ UNCHANGED quotaVars
    /\ UNCHANGED otherVars

NextJob ==
    \/ Tick
    \/ \E t \in TaskIds, j \in JobIds : Start(t, j)
    \/ \E t \in TaskIds : Completes(t)
    \/ \E t \in TaskIds : Fails(t)

SpecJob == Init /\ [][NextJob]_vars

(***************************************************************************)
(* Properties of the transition methods.                                   *)
(***************************************************************************)
\* C16: Start on a job that is not pending, and Complete or Fail on a job
\* that is not running, leave every field of the job unchanged.
C16_IllegalTransitionRejected ==
    [][\A t \in TaskIds :
          /\ (/\ tasks[t].pc = "idle"
              /\ tasks'[t].pc # "idle"
              /\ jobs[tasks'[t].job].status # "pending")
                => jobs'[tasks'[t].job] = jobs[tasks'[t].job]
          /\ (/\ Active(t)
              /\ tasks'[t].pc \in EndPcs
              /\ jobs[tasks[t].job].status # "running")
                => jobs'[tasks[t].job] = jobs[tasks[t].job]]_vars

\* C17: Complete called on a completed job with the result it already has,
\* and Fail called on a failed job with the error and trace it already has,
\* leave the job exactly as it was, completed_at included.
C17_CompleteFailIdempotent ==
    [][\A t \in TaskIds :
          LET j == tasks[t].job IN
          /\ (/\ Active(t)
              /\ tasks'[t].pc = "done"
              /\ jobs[j].status = "completed"
              /\ jobs'[j].result = jobs[j].result)
                => jobs'[j] = jobs[j]
          /\ (/\ Active(t)
              /\ tasks'[t].pc = "raised"
              /\ jobs[j].status = "failed"
              /\ jobs'[j].status = "failed"
              /\ jobs'[j].error = jobs[j].error
              /\ jobs'[j].traceback = jobs[j].traceback)
                => jobs'[j] = jobs[j]]_vars

\* A step of any part of the program.
AnyStep == Next \/ NextQuota \/ NextVolume \/ NextJob

\* C18: Cancel is legal from pending and from running: whenever a job is
\* pending or running, the program has a step that takes it to cancelled.
C18_CancelLegalFromPendingOrRunning ==
    \A j \in JobIds :
        jobs[j].status \in {"pending", "running"}
           => ENABLED (AnyStep /\ jobs'[j].status = "cancelled")

(***************************************************************************)
(* Properties of the cache under corruption and copy failure (Spec).       *)
(***************************************************************************)
\* The valid entry of scene s lacks a required band or its blob.
Incomplete(s) ==
    /\ gcache[s].exists
    /\ gcache[s].is_valid
    /\ \E b \in BandIdx : b \notin gcache[s].bands \/ <<s, b>> \notin globalBlobs

\* Every required band of scene s is listed in its entry and, unless a blob
\* was deleted out of band, present in the global bucket.
Complete(entry, s, blobs) ==
    /\ entry.is_valid
    /\ entry.bands = BandIdx
    /\ ~oobDeleted => \A b \in BandIdx : <<s, b>> \in blobs

\* C19: a request that finds a valid entry with a required band not listed
\* or its blob missing copies nothing from it: it sets is_valid to false
\* before any copy and goes to the download of the miss path; when that
\* download has brought every required band, its upsert leaves the same
\* entry valid again with every required band present.
C19_CorruptEntryInvalidatedThenRestored ==
    [][\A t \in TaskIds :
          LET s == jobs[tasks[t].job].scene IN
          /\ (tasks[t].pc = "lookup" /\ Incomplete(s)
                 /\ tasks'[t].pc # "lookup")
                => /\ tasks'[t].pc \in {"invalidate", "raised"}
                   /\ tenantBlobs' = tenantBlobs
          /\ (tasks[t].pc = "invalidate" /\ tasks'[t].pc # "invalidate")
                => /\ tasks'[t].pc \in {"download", "raised"}
                   /\ tenantBlobs' = tenantBlobs
                   /\ tasks'[t].pc = "download"
                         => ~gcache'[s].is_valid /\ tasks'[t].invalidated
          /\ (tasks[t].invalidated /\ tasks'[t] # tasks[t]
                 /\ tasks[t].pc \in {"download", "upsertq", "upsertc"})
                => tenantBlobs' = tenantBlobs
          /\ (tasks[t].invalidated /\ tasks[t].pc = "upsertc"
                 /\ tasks'[t].pc = "misscopy"
                 /\ BandIdx \subseteq tasks[t].got)
                => /\ gcache[s].exists
                   /\ gcache'[s].download_count = gcache[s].download_count
                   /\ Complete(gcache'[s], s, globalBlobs')]_vars

\* C19 witness: the task of one job left an incomplete valid entry; the
\* task of another job invalidated it, downloaded every required band and
\* has written the entry, which is valid and complete.
C19_Witness ==
    \E t \in TaskIds :
        /\ OneTaskPerJob
        /\ tasks[t].invalidated
        /\ tasks[t].pc \in {"misscopy", "record"}
        /\ tasks[t].got = BandIdx
        /\ Complete(gcache[jobs[tasks[t].job].scene],
                    jobs[tasks[t].job].scene, globalBlobs)

\* C20: when the copy to the tenant bucket fails after every required band
\* was uploaded and the entry written, the failure touches neither the
\* entry nor the global bucket nor any other job; with no other task
\* running meanwhile and no blob deleted, the entry is valid and complete
\* afterwards, and a request that finds such an entry takes the hit path.
C20_CopyFailureKeepsEntry ==
    [][\A t \in TaskIds :
          LET j == tasks[t].job
              s == jobs[j].scene
          IN
          /\ (/\ tasks[t].pc = "misscopy"
              /\ tasks'[t].pc = "raised"
              /\ BandIdx \subseteq tasks[t].got)
                => /\ gcache' = gcache
                   /\ globalBlobs' = globalBlobs
                   /\ \A i \in JobIds \ {j} : jobs'[i] = jobs[i]
                   /\ (~overlapped /\ ~oobDeleted)
                         => /\ Complete(gcache'[s], s, globalBlobs')
                            /\ \A b \in BandIdx : <<s, b>> \in globalBlobs'
          /\ (/\ tasks[t].pc = "lookup"
              /\ tasks'[t].pc \notin {"lookup", "raised"}
              /\ gcache[s].exists
              /\ ~Incomplete(s)
              /\ gcache[s].is_valid)
                => tasks'[t].pc = "hitcopy"]_vars

\* C20 witness: the job that wrote the entry failed on the copy, the entry
\* is valid and complete, and the job of another tenant, run afterwards,
\* was served from it.
C20_Witness ==
    \E t, u \in TaskIds :
        /\ ~overlapped
        /\ tasks[t].pc = "raised" /\ tasks[t].err = "StorageError"
        /\ jobs[tasks[t].job].status = "failed"
        /\ tasks[u].pc = "done"
        /\ jobs[tasks[u].job].status = "completed"
        /\ jobs[tasks[u].job].result = "reused"
        /\ jobs[tasks[u].job].tenant # jobs[tasks[t].job].tenant
        /\ ~oobDeleted
        /\ \E s \in Scenes : Complete(gcache[s], s, globalBlobs)

(***************************************************************************)
(* The worker tasks over a global cache that may already hold the scene:   *)
(* the entry and the blobs an earlier download of the scene left behind    *)
(* (download_count 0, never accessed), or nothing.                         *)
(***************************************************************************)
InitReuse ==
    /\ jobs \in [JobIds -> {NewJob(tn, ty, s) : tn \in Tenants,
                              ty \in {"download", "calculate_index"},
                              s \in Scenes}]
    /\ jobs[1].tenant = "t1"
    /\ \E cached \in BOOLEAN :
          /\ gcache = [s \in Scenes |->
                          IF cached THEN Entry(TRUE, BandIdx, 0) ELSE NoEntry]
          /\ globalBlobs = IF cached THEN Scenes \X BandIdx ELSE {}
          /\ firstDone = cached
    /\ tenantBlobs = [tn \in Tenants |-> {}]
    /\ sceneRecords = [k \in Tenants \X Scenes |-> 0]
    /\ tasks = [t \in TaskIds |-> IdleTask]
    /\ lateDownload = FALSE
    /\ overlapped = FALSE
    /\ oobDeleted = FALSE
    /\ now = 0
    /\ redis = [k \in RateKeys |-> AbsentKey]
    /\ planLimits = [tn \in Tenants |-> MaxLimit]
    /\ haLimits = [tn \in Tenants |->
                      [monthly_ha_limit |-> MaxHa, daily_ha_limit |-> MaxHa]]
    /\ month = 1
    /\ usageStats = [k \in Tenants \X Months |-> NoStats]
    /\ requests = [r \in ReqIds |-> IdleRequest]
    /\ enqueued = JobIds
    /\ received = 0
    /\ faults = 0
    /\ storeFailed = FALSE
    /\ freqChecks = [k \in Tenants \X Dates |-> 0]
    /\ freqAllowed = [k \in Tenants \X Dates |-> 0]
    /\ InitOther

SpecReuse == InitReuse /\ [][Next]_vars

\* The task committed the hit path (lines 237-238) in this step.
HitCommitted(t) == tasks[t].pc = "hitcopy" /\ tasks'[t].pc = "record"

MaxIdLen == 2     \* length of the varying part of a tenant id
MaxCalls == 2     \* calls of the function that are recorded

IdChars == {"a", "A", "-", "_"}

RECURSIVE Words(_)
Words(n) ==
    IF n = 0 THEN {<<>>}
    ELSE Words(n - 1) \cup
         {Append(w, c) : w \in {v \in Words(n - 1) : Len(v) = n - 1},
                         c \in IdChars}

Pad(n) == [i \in 1..n |-> "a"]

\* Hash seeds of two Python processes.
Seeds == {1, 2}

\* str.lower()
lower(s) == [i \in 1..Len(s) |-> IF s[i] = "A" THEN "a" ELSE s[i]]

\* re.sub(r'[^a-z0-9-]', '', s)
KeepAllowed(s) == SelectSeq(s, LAMBDA c : c \in {"a", "-"})

\* re.sub(r'-+', '-', s)
RECURSIVE CollapseHyphens(_)
CollapseHyphens(s) ==
    IF Len(s) < 2 THEN s
    ELSE IF s[1] = "-" /\ s[2] = "-" THEN CollapseHyphens(Tail(s))
    ELSE <<s[1]>> \o CollapseHyphens(Tail(s))

\* s.strip('-')
RECURSIVE StripHyphens(_)
StripHyphens(s) ==
    IF s = <<>> THEN s
    ELSE IF s[1] = "-" THEN StripHyphens(Tail(s))
    ELSE IF s[Len(s)] = "-" THEN StripHyphens(SubSeq(s, 1, Len(s) - 1))
    ELSE s

\* s[:n]
Take(s, n) == SubSeq(s, 1, IF Len(s) < n THEN Len(s) ELSE n)

\* str(n) for a natural number
RECURSIVE Str(_)
Str(n) ==
    LET d == <<"0", "1", "2", "3", "4", "5", "6", "7", "8", "9">>[(n % 10) + 1]
    IN  IF n < 10 THEN <<d>> ELSE Append(Str(n \div 10), d)

\* hash(tenant_id) of a str: a keyed hash whose key is drawn when the process
\* starts (hash randomisation), so the value depends on the process.  The
\* keyed function itself is outside the repository; a keyed polynomial over
\* the characters stands for it.
HashCode(c) == CASE c = "a" -> 1 [] c = "A" -> 2 [] c = "-" -> 3 [] OTHER -> 4

RECURSIVE hash(_, _)
hash(seed, s) ==
    IF s = <<>> THEN seed * 7919
    ELSE (hash(seed, SubSeq(s, 1, Len(s) - 1)) * 31 + HashCode(s[Len(s)]))
            % 1000003

NamePrefix ==
    <<"v", "e", "g", "e", "t", "a", "t", "i", "o", "n", "-",
      "p", "r", "i", "m", "e", "-">>

ShortPrefix == <<"v", "e", "g", "-">>

DefaultName == <<"d", "e", "f", "a", "u", "l", "t">>

\* Letters put before a word to obtain a tenant id whose name exceeds the
\* 63 characters of line 56.
LongPad == 63 - Len(NamePrefix) + 3

TenantIds ==
    (Words(MaxIdLen) \ {<<>>}) \cup {Pad(LongPad) \o w : w \in Words(MaxIdLen)}

sanitize(tenant_id) ==
    LET s == StripHyphens(CollapseHyphens(KeepAllowed(lower(tenant_id))))
    IN  IF s = <<>> THEN DefaultName ELSE s

generate_tenant_bucket_name(tenant_id, seed) ==
    LET sanitized == sanitize(tenant_id)
        full == NamePrefix \o sanitized
        hash_suffix == Take(Str(hash(seed, tenant_id)), 8)
        bucket_name ==
            IF Len(full) > 63
               THEN ShortPrefix \o Take(sanitized, 50) \o <<"-">> \o hash_suffix
               ELSE full
    IN  IF Len(bucket_name) < 3 THEN ShortPrefix \o sanitized
                                ELSE bucket_name

(***************************************************************************)
(* A process (worker or API, each with its own hash seed) derives the      *)
(* bucket of a tenant: download_tasks.py 183, processing_tasks.py 140,     *)
(* tiles.py 245 and 276.                                                   *)
(***************************************************************************)
TenantBucketNamed(tenant_id, seed) ==
    /\ Len(bucketCalls) < MaxCalls
    /\ bucketCalls' = Append(bucketCalls,
          [tenant_id |-> tenant_id, seed |-> seed,
           name |-> generate_tenant_bucket_name(tenant_id, seed)])
    /\ UNCHANGED <<jobs, cacheVars, quotaVars, tileVars, schedVars>>

NextBucket ==
    \E tenant_id \in TenantIds, seed \in Seeds :
        TenantBucketNamed(tenant_id, seed)

SpecBucket == InitQuota /\ [][NextBucket]_vars

\* C23: two calls for different tenant ids never give the same bucket name,
\* two calls for the same tenant id give the same name whichever process
\* makes them, and every name has 3 to 63 characters.
C23_BucketNamesIsolated ==
    \A i, j \in 1..Len(bucketCalls) :
        LET a == bucketCalls[i]
            b == bucketCalls[j]
        IN  /\ a.tenant_id # b.tenant_id => a.name # b.name
            /\ a.tenant_id = b.tenant_id => a.name = b.name
            /\ Len(a.name) \in 3..63

(***************************************************************************)
(* Tile endpoint (api/tiles.py 176-299) over the tile cache                *)
(* (services/cache.py).  The PNG of a tile is represented by the version   *)
(* of the scene's index raster it was rendered from.  A store call of the  *)
(* cache may raise RedisError, which the cache methods catch.              *)
(***************************************************************************)
\* The reply of the handler; the request record keeps it until the next one.
TileReply(q, status, body) ==
    [IdleTileReq EXCEPT !.tenant = q.tenant, !.key = q.key,
                        !.status = status, !.body = body]

\* cache.py 60-89: the stored bytes, or None on a miss or a store error
cache_get_tile(store, k, store_ok) ==
    IF store_ok THEN store[k] ELSE NoTile

\* cache.py 91-126: SETEX of the complete payload; nothing on a store error
cache_set_tile(store, k, tile_data, store_ok) ==
    IF store_ok THEN [store EXCEPT ![k] = tile_data] ELSE store

(***************************************************************************)
(* tiles.py 203-211: the handler looks the key up in the cache before      *)
(* anything else and answers with the cached bytes on a hit.               *)
(***************************************************************************)
get_tile(tn, k) ==
    LET q == [IdleTileReq EXCEPT !.tenant = tn, !.key = k] IN
    /\ tileReq.pc = "idle"
    /\ \E store_ok \in BOOLEAN :
          LET cached_tile == cache_get_tile(tileCache, k, store_ok) IN
          tileReq' = IF cached_tile # NoTile
                        THEN TileReply(q, 200, cached_tile)
                        ELSE [q EXCEPT !.pc = "generate"]
    /\ UNCHANGED <<tileCache, rasterVer, tileInval>>
    /\ UNCHANGED <<jobs, cacheVars, quotaVars, bucketVars, schedVars>>

\* tiles.py 216-219: the scene row of this id that belongs to the tenant
SceneOfTenant(tn, scene_id) == scene_tenant[scene_id] = tn

(***************************************************************************)
(* tiles.py 214-288 and 295-299: on a miss, query the scene of the tenant  *)
(* and its index row, then render the tile from the raster in the tenant   *)
(* bucket.  The HTTPException(404) raised inside the try block is caught   *)
(* by 'except Exception' and answered as 500, like a failed rendering.     *)
(***************************************************************************)
generate_tile(tn) ==
    LET q == tileReq
        u == KeyScene(q.key)
    IN
    /\ q.pc = "generate"
    /\ q.tenant = tn
    /\ IF ~SceneOfTenant(tn, u) \/ rasterVer[u] = 0
          THEN tileReq' = TileReply(q, 500, NoTile)
          ELSE \/ tileReq' = [q EXCEPT !.pc = "set", !.rendered = rasterVer[u]]
               \/ tileReq' = TileReply(q, 500, NoTile)
    /\ UNCHANGED <<tileCache, rasterVer, tileInval>>
    /\ UNCHANGED <<jobs, cacheVars, quotaVars, bucketVars, schedVars>>

(***************************************************************************)
(* tiles.py 290-293: store the generated tile and return it.               *)
(***************************************************************************)
set_tile(tn) ==
    LET q == tileReq IN
    /\ q.pc = "set"
    /\ q.tenant = tn
    /\ \E store_ok \in BOOLEAN :
          tileCache' = cache_set_tile(tileCache, q.key, q.rendered, store_ok)
    /\ tileReq' = TileReply(q, 200, q.rendered)
    /\ UNCHANGED <<rasterVer, tileInval>>
    /\ UNCHANGED <<jobs, cacheVars, quotaVars, bucketVars, schedVars>>

(***************************************************************************)
(* calculate_vegetation_index writes the index raster of a scene           *)
(* (processing_tasks.py 279-312): for a single scene the path is           *)
(* {scene.storage_path}/indices/{index_type}.tif, so a recalculation       *)
(* replaces the object.  The task makes no call to the tile cache.         *)
(***************************************************************************)
SaveIndexRaster(u) ==
    /\ rasterVer[u] < MaxVer
    /\ rasterVer' = [rasterVer EXCEPT ![u] = @ + 1]
    /\ UNCHANGED <<tileCache, tileReq, tileInval>>
    /\ UNCHANGED <<jobs, cacheVars, quotaVars, bucketVars, schedVars>>

\* The 24 hours of TILE_CACHE_TTL (cache.py 15) have passed for an entry.
TileExpires(k) ==
    /\ tileCache[k] # NoTile
    /\ tileCache' = [tileCache EXCEPT ![k] = NoTile]
    /\ UNCHANGED <<rasterVer, tileReq, tileInval>>
    /\ UNCHANGED <<jobs, cacheVars, quotaVars, bucketVars, schedVars>>

(***************************************************************************)
(* TileCache.invalidate_scene (cache.py 128-153), an operation of the      *)
(* service (nothing in the repository calls it): KEYS with the pattern of  *)
(* the scene, then DELETE of the keys found.  A store error in either call *)
(* is caught and 0 is returned.                                            *)
(***************************************************************************)
\* Mutant of SceneKeys: the pattern stops before the scene id.
SceneKeys_AllScenes(store, scene_id) ==
    {k \in TileKeys :
        store[k] # NoTile /\ Matches(k, <<"vegetation", "tile">>)}

\* redis_client.keys(pattern)
SceneKeys(store, scene_id) ==
    {k \in TileKeys :
        store[k] # NoTile /\ Matches(k, ScenePattern(scene_id))}

invalidate_scene_keys(u) ==
    /\ tileInval.pc = "idle"
    /\ \/ tileInval' = [IdleInval EXCEPT !.scene = u, !.failed = TRUE]
       \/ LET keys == SceneKeys(tileCache, u) IN
          tileInval' = IF keys = {}
                          THEN [IdleInval EXCEPT !.scene = u]
                          ELSE [IdleInval EXCEPT !.pc = "delete", !.scene = u,
                                                 !.keys = keys]
    /\ UNCHANGED <<tileCache, rasterVer, tileReq>>
    /\ UNCHANGED <<jobs, cacheVars, quotaVars, bucketVars, schedVars>>

\* redis_client.delete(*keys)
delete_keys(store, keys) ==
    [k \in TileKeys |-> IF k \in keys THEN NoTile ELSE store[k]]

invalidate_scene_delete ==
    /\ tileInval.pc = "delete"
    /\ \/ /\ tileCache' = delete_keys(tileCache, tileInval.keys)
          /\ tileInval' = [IdleInval EXCEPT
                !.scene = tileInval.scene,
                !.deleted = Cardinality({k \in tileInval.keys :
                                            tileCache[k] # NoTile})]
       \/ /\ tileCache' = tileCache
          /\ tileInval' = [IdleInval EXCEPT !.scene = tileInval.scene,
                                            !.failed = TRUE]
    /\ UNCHANGED <<rasterVer, tileReq>>
    /\ UNCHANGED <<jobs, cacheVars, quotaVars, bucketVars, schedVars>>

NextTiles ==
    \/ \E tn \in Tenants, k \in TileKeys : get_tile(tn, k)
    \/ \E tn \in Tenants : generate_tile(tn)
    \/ \E tn \in Tenants : set_tile(tn)
    \/ \E u \in TileScenes : SaveIndexRaster(u)
    \/ \E k \in TileKeys : TileExpires(k)
    \/ \E u \in TileScenes : invalidate_scene_keys(u)
    \/ invalidate_scene_delete

SpecTiles == InitQuota /\ [][NextTiles]_vars

C27_TerminalFieldsMatchStatus ==
    \A j \in JobIds :
        /\ jobs[j].result # "none" => jobs[j].status = "completed"
        /\ jobs[j].error # NoErr => jobs[j].status = "failed"
        /\ jobs[j].completed_at # {}
              <=> jobs[j].status \in {"completed", "failed"}

(***************************************************************************)
(* Submissions that carry bounds and no ha_to_process (main.py 298-308     *)
(* with request.ha_to_process absent): check_volume_limit calculates the   *)
(* area from the bounds.                                                   *)
(***************************************************************************)
\* bounds a client can post: none, a polygon, a polygon whose coordinates
\* are no ring, and a geometry of another type
BoundsInputs ==
    {NoBounds, GeoJSON("Polygon", TRUE, 1), GeoJSON("Polygon", FALSE, 0),
     GeoJSON("Point", FALSE, 0)}

NextGeometry ==
    \/ \E r \in ReqIds, tn \in Tenants, b \in BoundsInputs :
          check_all_limits(r, tn, b, {})
    \/ \E r \in ReqIds : check_frequency_incr(r)
    \/ \E r \in ReqIds : check_frequency_expire(r)
    \/ \E r \in ReqIds : check_volume_limit(r)
    \/ \E r \in ReqIds : AddJobRow(r)
    \/ \E r \in ReqIds : record_job_usage_query(r)
    \/ \E r \in ReqIds : record_job_usage_commit(r)

SpecGeometry == InitVolume /\ [][NextGeometry]_vars

Subscribers == {"t1"}

\* Lines 160-165: scene ids among scene_ids for which the tenant has a
\* VegetationScene row
existing_scene_ids(records, tn, scene_ids) ==
    {s \in scene_ids : records[<<tn, s>>] > 0}

(***************************************************************************)
(* check_and_process_entity 75-165: load the subscription, its geometry    *)
(* and the credentials, search the provider, query the tenant's scene      *)
(* rows.  The task returns when the subscription is gone, the geometry     *)
(* does not parse, there are no credentials, the search raises or finds    *)
(* nothing (88-156).                                                       *)
(***************************************************************************)
check_and_process_entity(i, tn) ==
    /\ schedRuns[i].pc = "idle"
    /\ \A k \in RunIds : k < i => schedRuns[k].pc # "idle"
    /\ \/ schedRuns' = schedRuns
       \/ schedRuns' = [schedRuns EXCEPT ![i] =
             [pc |-> "loop", tenant |-> tn, scenes |-> Scenes,
              existing_ids |-> existing_scene_ids(sceneRecords, tn, Scenes)]]
    /\ UNCHANGED <<jobs, cacheVars, quotaVars, bucketVars, tileVars>>

(***************************************************************************)
(* Lines 167-196, one turn of 'for scene in scenes': for a scene that is   *)
(* not in existing_ids a download job row is added and committed and the   *)
(* download task is sent.  No limit is consulted.                          *)
(***************************************************************************)
trigger_download(i, s) ==
    LET run == schedRuns[i]
        j   == CHOOSE k \in FreeJobIds : \A m \in FreeJobIds : k <= m
    IN
    /\ run.pc = "loop"
    /\ s \in run.scenes
    /\ IF s \notin run.existing_ids
          THEN /\ FreeJobIds # {}
               /\ jobs' = [jobs EXCEPT ![j] = NewJob(run.tenant, "download", s)]
               /\ enqueued' = enqueued \cup {j}
          ELSE UNCHANGED <<jobs, enqueued>>
    /\ schedRuns' = [schedRuns EXCEPT ![i] =
          IF run.scenes = {s} THEN IdleRun
          ELSE [run EXCEPT !.scenes = @ \ {s}]]
    /\ UNCHANGED <<now, redis, planLimits, haLimits, month, usageStats,
                   requests>>
    /\ UNCHANGED quotaHist
    /\ UNCHANGED <<cacheVars, bucketVars, tileVars>>

NextSched ==
    \/ \E i \in RunIds, tn \in Subscribers : check_and_process_entity(i, tn)
    \/ \E i \in RunIds, s \in Scenes : trigger_download(i, s)
    \/ \E t \in TaskIds, j \in enqueued : Start(t, j)
    \/ \E t \in TaskIds : Lookup(t)
    \/ \E t \in TaskIds : HitCopy(t)
    \/ \E t \in TaskIds : Invalidate(t)
    \/ \E t \in TaskIds : Download(t)
    \/ \E t \in TaskIds : UpsertQuery(t)
    \/ \E t \in TaskIds : UpsertCommit(t)
    \/ \E t \in TaskIds : MissCopy(t)
    \/ \E t \in TaskIds : Record(t)

SpecSched == InitQuota /\ [][NextSched]_vars

\* C28: every job record that is created was preceded by a quota check for
\* its tenant that allowed it: a tenant never has more job rows than quota
\* checks that allowed it one.
C28_JobsPrecededByAllowedCheck ==
    LET JobRowsOf(tn) ==
            {j \in JobIds : jobs[j] # NoJob /\ jobs[j].tenant = tn}
        RECURSIVE Sum(_, _)
        Sum(tn, D) == IF D = {} THEN 0
                      ELSE LET d == CHOOSE x \in D : TRUE
                           IN freqAllowed[<<tn, d>>] + Sum(tn, D \ {d})
    IN \A tn \in Tenants : Cardinality(JobRowsOf(tn)) <= Sum(tn, Dates)

\* C30: subscription processing does not create a download job for a
\* tenant and scene while an earlier download job for that tenant and
\* scene is still pending or running.
C30_NoSecondJobWhileOpen ==
    [][\A i \in RunIds, j \in JobIds :
          (schedRuns[i].pc = "loop" /\ schedRuns'[i] # schedRuns[i]
             /\ jobs[j] = NoJob /\ jobs'[j] # NoJob)
          => ~\E k \in JobIds :
                 /\ jobs[k] # NoJob
                 /\ jobs[k].tenant = jobs'[j].tenant
                 /\ jobs[k].scene = jobs'[j].scene
                 /\ jobs[k].job_type = "download"
                 /\ jobs[k].status \in {"pending", "running"}]_vars

=============================================================================
